---- MODULE Spec2Model ----
(***************************************************************************)
(* Model of the file-compression endpoint POST /api/compress               *)
(* (src/src/routes/compression.js) and of compressPdf                       *)
(* (src/unnamed/part_000, required as ../utils/pdfCompressor).              *)
(*                                                                         *)
(* Each request r runs the async handler; an action is one run of the     *)
(* handler between two awaits (or the completion of the awaited work in    *)
(* the thread pool / stream machinery).  The two upload directories are    *)
(* shared by all requests.                                                 *)
(***************************************************************************)
EXTENDS Naturals, Integers, Sequences, FiniteSets, TLC

\* ------------------------------------------------------------- bounds
NumReq == 2
MaxClock == 1
MaxPages == 2
MaxFmtDigits == 6
MaxUsers == 2

Req == 1..NumReq

\* ------------------------------------------------------------- constants
TARGET_SIZE == 10 * 1024 * 1024

\* File sizes an encoder / writer may produce: on and just over the target.
Sizes == {TARGET_SIZE, TARGET_SIZE + 1}

\* Declared media types of the uploads, as token sequences.
MimeTypes ==
  { <<"image", "/", "png">>,
    <<"application", "/", "pdf">>,
    <<"application", "/", "zip">> }

\* Original file names of the uploads, as character sequences.
FileNames ==
  { <<"A", "-", "b", ".", "t">>,
    <<"a", "b">> }

\* The bytes of an uploaded file (every upload of Spec carries these).
UploadBytes == <<1, 1, 2>>

\* ------------------------------------------------------------- strings
UpperToLower == ("A" :> "a") @@ ("B" :> "b")

AlnumChars == {"a", "b", "t", "A", "B", "0", "1", "2"}

\* String.prototype.startsWith
StartsWith(s, prefix) ==
  /\ Len(s) >= Len(prefix)
  /\ SubSeq(s, 1, Len(prefix)) = prefix

ToLowerCharKept(c) == c
\* String.prototype.toLowerCase, one character
ToLowerChar(c) == IF c \in DOMAIN UpperToLower THEN UpperToLower[c] ELSE c

\* .replace(/[^a-z0-9]/gi, '_'), one character
ReplaceNonAlnum(c) == IF c \in AlnumChars THEN c ELSE "_"

\* Index of the dot that starts the extension of a base name, 0 when the name
\* has no extension (no dot, or the only dot is the leading character).
ExtStart(name) ==
  LET dots == {i \in 1..Len(name) : name[i] = "."}
  IN  IF dots = {} THEN 0
      ELSE LET last == CHOOSE i \in dots : \A j \in dots : j <= i
           IN  IF last = 1 THEN 0 ELSE last

\* path.parse(originalName).name
ParseName(name) ==
  IF ExtStart(name) = 0 THEN name ELSE SubSeq(name, 1, ExtStart(name) - 1)

\* path.extname(originalName)
ExtName(name) ==
  IF ExtStart(name) = 0 THEN <<>> ELSE SubSeq(name, ExtStart(name), Len(name))

\* path.parse(originalName).name.replace(/[^a-z0-9]/gi, '_').toLowerCase()
CleanName(name) ==
  LET base == ParseName(name)
  IN  [i \in 1..Len(base) |-> ToLowerChar(ReplaceNonAlnum(base[i]))]

\* `${cleanName}-${timestamp}<suffix>`
OutputFilename(name, timestamp, suffix) ==
  CleanName(name) \o <<"-", ToString(timestamp)>> \o suffix

\* ------------------------------------------------------------- dispatch
\* mimeType.startsWith('image/')
IsImage(m) == StartsWith(m, <<"image", "/">>)

IsPdfPrefix(m) == StartsWith(m, <<"application", "/">>)
\* mimeType === 'application/pdf'
IsPdf(m) == m = <<"application", "/", "pdf">>

\* the if / else if / else chain of the handler
StrategyOf(m) ==
  IF IsImage(m) THEN "image"
  ELSE IF IsPdf(m) THEN "pdf"
  ELSE "generic"

\* the label assigned to compressionType at the end of each branch
LabelOf(strategy, m) ==
  CASE strategy = "image" -> "image-optimization"
    [] strategy = "pdf" -> "pdf-rasterization"
    [] OTHER -> IF IsPdf(m) THEN "gzip (PDF)" ELSE "gzip"

\* ------------------------------------------------------------- image ladder
LadderFive ==
  << [width |-> 5840, quality |-> 90],
     [width |-> 1920, quality |-> 85],
     [width |-> 1280, quality |-> 70],
     [width |-> 800, quality |-> 50],
     [width |-> 400, quality |-> 30] >>
\* the four resize/jpeg settings, in the order the handler applies them
Ladder ==
  << [width |-> 5840, quality |-> 90],
     [width |-> 1920, quality |-> 85],
     [width |-> 1280, quality |-> 70],
     [width |-> 800, quality |-> 50] >>

RungOutputPathPerRung(outputPath, k) == outputPath \o <<ToString(k)>>
\* the path every rung's .toFile(outputPath) writes: the same for all rungs
RungOutputPath(outputPath, k) == outputPath

ExceedsTargetOrEqual(size) == size >= TARGET_SIZE
\* stats.size > TARGET_SIZE
ExceedsTarget(size) == size > TARGET_SIZE

\* ------------------------------------------------------------- state
VARIABLES
  clock,          \* Date.now()
  pc,             \* where each request's handler stands
  file,           \* req.file of each request (hasFile FALSE: no file part)
  missing,        \* requests whose temp input file was missing when handled
  uploads,        \* requests whose temp input file exists in uploads/
  compressed,     \* uploads/compressed/: output file name -> content
  timestamp,      \* const timestamp
  outputFilename, \* let outputFilename (<<>>: unassigned)
  compressionType,\* let compressionType
  rung,           \* image: the rung being / last encoded (0: none)
  measured,       \* image: the stats.size read after each rung, in order
  pdf,            \* compressPdf's locals
  resp,           \* the response sent (status 0: none yet)
  nResp,          \* number of responses sent
  errLog,         \* the error console.error reported in the catch block
  escaped,        \* the error that left the handler uncaught
  ran,            \* strategies whose branch was entered
  serverUp,       \* the node process is running
  fmt,            \* a call of formatBytes: its argument and what it returned
  users,          \* the rows of table auth_users
  auth,           \* the request each auth handler run is serving
  lad,            \* one source image taken through the rungs of the ladder
  pick,           \* a PDF of the handler: its page count and the preset chosen
  boqs,           \* the rows of table boqs
  boqFiles,       \* the files of uploads/boq/
  boqSeq,         \* rows and files created so far (serial boq_id, file stamp)
  boq             \* the request each BOQ handler run is serving

\* the state of the compression route
routeVars == <<clock, pc, file, missing, uploads, compressed, timestamp,
               outputFilename, compressionType, rung, measured, pdf, resp, nResp,
               errLog, escaped, ran, serverUp>>

\* the state of the other functions and routes
fmtVars == <<fmt>>
authVars == <<users, auth>>
ladVars == <<lad>>
pickVars == <<pick>>
boqVars == <<boqs, boqFiles, boqSeq, boq>>
outside == <<fmtVars, authVars, ladVars, pickVars, boqVars>>

vars == <<routeVars, outside>>

NoFileRec == [hasFile |-> FALSE, mimetype |-> <<>>, originalname |-> <<>>,
              override |-> 0, bytes |-> <<>>]

NoResp == [status |-> 0, error |-> "", url |-> <<>>, message |-> "", size |-> 0]

\* res.status(400).json({ error: 'No file uploaded' })
BadRequest400 == [NoResp EXCEPT !.status = 400, !.error = "No file uploaded"]

\* res.status(500).json({ error: 'Failed to compress file' })
Failure500 == [NoResp EXCEPT !.status = 500, !.error = "Failed to compress file"]

\* the framework's own answer to an error that left the handler
Default500 == [NoResp EXCEPT !.status = 500, !.error = "Internal Server Error"]

Success200UnderTarget(name, size, type) ==
  IF size > TARGET_SIZE
    THEN Failure500
    ELSE [NoResp EXCEPT !.status = 200, !.url = name, !.size = size,
                        !.message = <<"File compressed using ", type>>]
\* res.json({ original_size, compressed_size, url, message })
Success200(name, size, type) ==
  [NoResp EXCEPT !.status = 200, !.url = name, !.size = size,
                 !.message = <<"File compressed using ", type>>]

\* direct: compressPdf was called on its own, not by the handler
NoPdf == [targetSize |-> 0, direct |-> FALSE, numPages |-> 0, i |-> 0,
          added |-> <<>>, held |-> {},
          scale |-> 0, quality |-> 0, resizeWidth |-> 0]

\* nothing has run yet: the output directory is empty, no handler has
\* assigned its locals, nothing was answered or logged
NothingRun ==
  /\ clock = 0
  /\ compressed = <<>>
  /\ timestamp = [r \in Req |-> 0]
  /\ compressionType = [r \in Req |-> "none"]
  /\ rung = [r \in Req |-> 0]
  /\ measured = [r \in Req |-> <<>>]
  /\ resp = [r \in Req |-> NoResp]
  /\ nResp = [r \in Req |-> 0]
  /\ errLog = [r \in Req |-> "none"]
  /\ escaped = [r \in Req |-> "none"]
  /\ ran = [r \in Req |-> {}]
  /\ serverUp = TRUE

\* no call of formatBytes is in progress
NoFmt == [bytes |-> <<>>, called |-> FALSE, returned |-> <<>>]

\* nothing outside the compression route is going on
\* no request is being served by the auth routes
NoAuth == [op |-> "none", pc |-> "none", email |-> <<>>, phone |-> <<>>,
           id |-> 0, status |-> 0, error |-> "", thrown |-> "none"]

NoLad == [srcWidth |-> 0, encoder |-> "none", k |-> 0, sizes |-> <<>>]

NoPick == [numPages |-> 0, override |-> 0, called |-> FALSE, scale |-> 0,
           quality |-> 0, resizeWidth |-> 0]

NoBoq == [op |-> "none", pc |-> "none", id |-> 0, fileUrl |-> 0, status |-> 0]

FmtIdle == fmt = NoFmt

AuthIdle ==
  /\ users = {}
  /\ auth = [r \in Req |-> NoAuth]

LadIdle == lad = NoLad

PickIdle == pick = NoPick

BoqIdle ==
  /\ boqs = {}
  /\ boqFiles = {}
  /\ boqSeq = 0
  /\ boq = [r \in Req |-> NoBoq]

OutsideIdle ==
  /\ FmtIdle
  /\ AuthIdle
  /\ LadIdle
  /\ PickIdle
  /\ BoqIdle

\* no request has reached the compression route
RouteIdle ==
  /\ NothingRun
  /\ pc = [r \in Req |-> "idle"]
  /\ file = [r \in Req |-> NoFileRec]
  /\ missing = {}
  /\ uploads = {}
  /\ outputFilename = [r \in Req |-> <<>>]
  /\ pdf = [r \in Req |-> NoPdf]

Init ==
  /\ RouteIdle
  /\ OutsideIdle

\* ------------------------------------------------------------- file system
\* a file of uploads/compressed/: who wrote it, with which settings
NoRung == [width |-> 0, quality |-> 0]

FileContent(r, kind, setting, size, complete, pages, payload) ==
  [writer |-> r, kind |-> kind, rung |-> setting, size |-> size,
   complete |-> complete, pages |-> pages, payload |-> payload]

\* writing (creating or replacing) the file called name
WriteFile(fs, name, content) ==
  [q \in (DOMAIN fs) \cup {name} |-> IF q = name THEN content ELSE fs[q]]

\* fs.existsSync(inputPath)
ExistsSync(ups, r) == r \in ups

UnlinkedNot(ups, r) == ups
\* fs.unlinkSync(inputPath), when it does not throw
Unlinked(ups, r) == ups \ {r}

\* ------------------------------------------------------------- gzip
\* zlib's gzip stream, as run-length coding: the length of the first run
RunLength(b) ==
  CHOOSE k \in 1..Len(b) :
    /\ \A j \in 1..k : b[j] = b[1]
    /\ k = Len(b) \/ b[k + 1] # b[1]

RECURSIVE Deflate(_)
Deflate(b) ==
  IF b = <<>> THEN <<>>
  ELSE <<[byte |-> b[1], count |-> RunLength(b)]>>
         \o Deflate(SubSeq(b, RunLength(b) + 1, Len(b)))

RECURSIVE Inflate(_)
Inflate(runs) ==
  IF runs = <<>> THEN <<>>
  ELSE [j \in 1..runs[1].count |-> runs[1].byte] \o Inflate(Tail(runs))

\* zlib.createGzip({ level: 9 }) applied to a whole input
Gzip(b) == [magic |-> "1f8b", runs |-> Deflate(b), isize |-> Len(b)]

\* what gunzip gives back
Gunzip(z) == Inflate(z.runs)

WrittenAtSourceEnd(src) ==
  Gzip(IF src = <<>> THEN src ELSE SubSeq(src, 1, Len(src) - 1))
\* what the destination holds when it emits 'finish': source.pipe(gzip)
\* .pipe(destination) has passed the whole source through gzip and flushed it
WrittenAtFinish(src) == Gzip(src)

\* ------------------------------------------------------------- how a handler run ends
\* What express / node may do with a promise rejection nobody handles: leave
\* the request unanswered, end the process, or answer with the framework's
\* own error page.
RejectionOutcomes == {"hang", "crash", "default500"}

\* a response is sent and the handler returns
Respond(r, answer) ==
  /\ resp' = [resp EXCEPT ![r] = answer]
  /\ nResp' = [nResp EXCEPT ![r] = @ + 1]
  /\ pc' = [pc EXCEPT ![r] = "done"]

\* an exception leaves the async handler: its promise rejects, unhandled
UnhandledRejection(r, e) ==
  /\ escaped' = [escaped EXCEPT ![r] = e]
  /\ \E o \in RejectionOutcomes :
       CASE o = "hang" ->
              /\ pc' = [pc EXCEPT ![r] = "unhandled"]
              /\ UNCHANGED <<resp, nResp, serverUp>>
         [] o = "crash" ->
              /\ pc' = [pc EXCEPT ![r] = "unhandled"]
              /\ serverUp' = FALSE
              /\ UNCHANGED <<resp, nResp>>
         [] OTHER ->
              /\ Respond(r, Default500)
              /\ UNCHANGED serverUp

\* an 'error' event nobody listens to is thrown: the process ends
UncaughtException(r, e) ==
  /\ escaped' = [escaped EXCEPT ![r] = e]
  /\ pc' = [pc EXCEPT ![r] = "unhandled"]
  /\ serverUp' = FALSE
  /\ UNCHANGED <<resp, nResp>>

\* the catch block: log, delete the temp input if it exists, answer 500
Catch(r, e) ==
  /\ errLog' = [errLog EXCEPT ![r] = e]
  /\ IF ExistsSync(uploads, r)
       THEN \E unlinkThrows \in BOOLEAN :
              IF unlinkThrows
                THEN /\ uploads' = uploads
                     /\ UnhandledRejection(r, "unlink")
                ELSE /\ uploads' = Unlinked(uploads, r)
                     /\ Respond(r, Failure500)
                     /\ UNCHANGED <<escaped, serverUp>>
       ELSE /\ uploads' = uploads
            /\ Respond(r, Failure500)
            /\ UNCHANGED <<escaped, serverUp>>

\* the success tail: measure the output, delete the temp input, answer 200.
\* It runs in the same turn as the end of the strategy, on the directory
\* as the strategy left it (fsNow).
SuccessTail(r, fsNow, name, type) ==
  \E statThrows, unlinkThrows \in BOOLEAN :
    IF statThrows \/ name \notin DOMAIN fsNow
      THEN Catch(r, "stat")
    ELSE IF unlinkThrows \/ ~ExistsSync(uploads, r)
      THEN Catch(r, "unlink")
    ELSE /\ uploads' = Unlinked(uploads, r)
         /\ Respond(r, Success200(name, fsNow[name].size, type))
         /\ UNCHANGED <<errLog, escaped, serverUp>>

\* the handler goes on: nothing is answered, logged or deleted in this step
Continue(r, next) ==
  /\ pc' = [pc EXCEPT ![r] = next]
  /\ UNCHANGED <<uploads, resp, nResp, errLog, escaped, serverUp>>

\* ------------------------------------------------------------- upload
\* Date.now() advances
Tick ==
  /\ UNCHANGED outside
  /\ serverUp
  /\ clock < MaxClock
  /\ clock' = clock + 1
  /\ UNCHANGED <<pc, file, missing, uploads, compressed, timestamp, outputFilename,
                 compressionType, rung, measured, pdf, resp, nResp, errLog,
                 escaped, ran, serverUp>>

\* upload.single('file'): the request arrives, with or without a file part.
\* present = FALSE is the request whose temp file is missing by the time the
\* handler runs.
Upload(r) ==
  /\ UNCHANGED outside
  /\ serverUp
  /\ pc[r] = "idle"
  /\ \/ /\ file' = file
        /\ uploads' = uploads
        /\ missing' = missing
     \/ \E m \in MimeTypes, n \in FileNames, present \in BOOLEAN :
          /\ file' = [file EXCEPT ![r] =
                        [hasFile |-> TRUE, mimetype |-> m, originalname |-> n,
                         override |-> 0, bytes |-> UploadBytes]]
          /\ uploads' = IF present THEN uploads \cup {r} ELSE uploads
          /\ missing' = IF present THEN missing ELSE missing \cup {r}
  /\ pc' = [pc EXCEPT ![r] = "uploaded"]
  /\ UNCHANGED <<clock, compressed, timestamp, outputFilename, compressionType,
                 rung, measured, pdf, resp, nResp, errLog, escaped, ran,
                 serverUp>>

\* ------------------------------------------------------------- handler entry
\* if (!req.file) return res.status(400)...
StartNoFile(r) ==
  /\ UNCHANGED outside
  /\ serverUp
  /\ pc[r] = "uploaded"
  /\ ~file[r].hasFile
  /\ Respond(r, BadRequest400)
  /\ UNCHANGED <<clock, file, missing, uploads, compressed, timestamp, outputFilename,
                 compressionType, rung, measured, pdf, errLog, escaped, ran,
                 serverUp>>

\* image branch up to the first await: rung 1 is handed to sharp
StartImage(r) ==
  /\ UNCHANGED outside
  /\ serverUp
  /\ pc[r] = "uploaded"
  /\ file[r].hasFile
  /\ StrategyOf(file[r].mimetype) = "image"
  /\ timestamp' = [timestamp EXCEPT ![r] = clock]
  /\ outputFilename' = [outputFilename EXCEPT ![r] =
        OutputFilename(file[r].originalname, clock, <<".", "jpg">>)]
  /\ ran' = [ran EXCEPT ![r] = @ \cup {"image"}]
  /\ rung' = [rung EXCEPT ![r] = 1]
  /\ Continue(r, "encode")
  /\ UNCHANGED <<clock, file, missing, compressed, compressionType, measured, pdf>>

\* the targetSize compressPdf runs with when the handler calls it:
\* compressPdf(inputPath, outputPath) passes no third argument, so the
\* parameter takes its default whatever the request carried
CompressPdfTargetFromRequest(override) ==
  IF override > 0 THEN override ELSE TARGET_SIZE
CompressPdfTarget(override) == TARGET_SIZE

\* an exception leaves compressPdf: into the handler's catch block, or to
\* the direct caller as a rejected promise
PdfThrow(r, e) ==
  IF pdf[r].direct
    THEN /\ pc' = [pc EXCEPT ![r] = "rejected"]
         /\ escaped' = [escaped EXCEPT ![r] = e]
         /\ UNCHANGED <<uploads, resp, nResp, errLog, serverUp>>
    ELSE Catch(r, e)

\* const pdfData = new Uint8Array(fs.readFileSync(inputPath))
PdfReadInput(r) ==
  \E readThrows \in BOOLEAN :
    IF readThrows \/ ~ExistsSync(uploads, r)
      THEN PdfThrow(r, "read")
      ELSE Continue(r, "pdfLoad")

\* PDF branch up to the first await: compressPdf reads the input file
StartPdf(r) ==
  /\ UNCHANGED outside
  /\ serverUp
  /\ pc[r] = "uploaded"
  /\ file[r].hasFile
  /\ StrategyOf(file[r].mimetype) = "pdf"
  /\ timestamp' = [timestamp EXCEPT ![r] = clock]
  /\ outputFilename' = [outputFilename EXCEPT ![r] =
        OutputFilename(file[r].originalname, clock, <<".", "pdf">>)]
  /\ ran' = [ran EXCEPT ![r] = @ \cup {"pdf"}]
  /\ pdf' = [pdf EXCEPT ![r].targetSize = CompressPdfTarget(file[r].override)]
  /\ PdfReadInput(r)
  /\ UNCHANGED <<clock, file, missing, compressed, compressionType, rung, measured>>

\* generic branch up to the await: the three streams are created and piped
StartGeneric(r) ==
  /\ UNCHANGED outside
  /\ serverUp
  /\ pc[r] = "uploaded"
  /\ file[r].hasFile
  /\ StrategyOf(file[r].mimetype) = "generic"
  /\ timestamp' = [timestamp EXCEPT ![r] = clock]
  /\ outputFilename' = [outputFilename EXCEPT ![r] =
        OutputFilename(file[r].originalname, clock,
                       ExtName(file[r].originalname) \o <<".", "gz">>)]
  /\ ran' = [ran EXCEPT ![r] = @ \cup {"generic"}]
  /\ Continue(r, "gzip")
  /\ UNCHANGED <<clock, file, missing, compressed, compressionType, rung, measured, pdf>>

\* ------------------------------------------------------------- image strategy
SharpInputPrevious(r, k) ==
  IF k = 1 THEN <<"uploads", r>> ELSE <<"compressed", r>>
\* the file rung k opens: sharp(inputPath), the temp input file of the request
SharpInput(r, k) == <<"uploads", r>>

\* sharp(inputPath).resize(Ladder[rung]).jpeg(...).toFile(outputPath) settles.
\* A missing input is rejected before anything is written; an encode that
\* fails on a readable input may leave a partial file behind.
EncodeDone(r) ==
  /\ UNCHANGED outside
  /\ serverUp
  /\ pc[r] = "encode"
  /\ \/ /\ ExistsSync(uploads, r)
        /\ \E s \in Sizes :
             compressed' = WriteFile(compressed,
                 RungOutputPath(outputFilename[r], rung[r]),
                 FileContent(r, "jpg", Ladder[rung[r]], s, TRUE, <<>>,
                             SharpInput(r, rung[r])))
        /\ Continue(r, "stat")
     \/ /\ \E partial \in BOOLEAN :
             compressed' =
               IF partial /\ ExistsSync(uploads, r)
                 THEN WriteFile(compressed,
                        RungOutputPath(outputFilename[r], rung[r]),
                        FileContent(r, "jpg", Ladder[rung[r]], 0, FALSE, <<>>,
                                    SharpInput(r, rung[r])))
                 ELSE compressed
        /\ Catch(r, "encode")
  /\ UNCHANGED <<clock, file, missing, timestamp, outputFilename, compressionType, rung,
                 measured, pdf, ran>>

\* The handler resumes after the await of rung 1, 2 or 3: stats =
\* fs.statSync(outputPath), then the chain of if (stats.size > TARGET_SIZE).
\* After rung 4 it goes to the success tail without a stat of its own.
RungCont(r) ==
  /\ UNCHANGED outside
  /\ serverUp
  /\ pc[r] = "stat"
  /\ UNCHANGED <<clock, file, missing, compressed, timestamp, outputFilename, pdf, ran>>
  /\ IF rung[r] < Len(Ladder)
       THEN \E statThrows \in BOOLEAN :
              IF statThrows \/ outputFilename[r] \notin DOMAIN compressed
                THEN /\ Catch(r, "stat")
                     /\ UNCHANGED <<rung, measured, compressionType>>
                ELSE LET size == compressed[outputFilename[r]].size IN
                     /\ measured' = [measured EXCEPT ![r] = Append(@, size)]
                     /\ IF ExceedsTarget(size)
                          THEN /\ rung' = [rung EXCEPT ![r] = @ + 1]
                               /\ Continue(r, "encode")
                               /\ UNCHANGED compressionType
                          ELSE /\ compressionType' = [compressionType EXCEPT
                                      ![r] = LabelOf("image", file[r].mimetype)]
                               /\ SuccessTail(r, compressed, outputFilename[r],
                                              compressionType'[r])
                               /\ UNCHANGED rung
       ELSE /\ compressionType' = [compressionType EXCEPT
                   ![r] = LabelOf("image", file[r].mimetype)]
            /\ SuccessTail(r, compressed, outputFilename[r], compressionType'[r])
            /\ UNCHANGED <<rung, measured>>

\* ------------------------------------------------------------- PDF strategy
\* the three presets (scale is in tenths: 10 is 1.0)
PresetAggressive == [scale |-> 10, quality |-> 40, resizeWidth |-> 800]
PresetMedium == [scale |-> 12, quality |-> 60, resizeWidth |-> 1000]
PresetGenerous == [scale |-> 15, quality |-> 70, resizeWidth |-> 1200]

PresetInclusive(targetSize, numPages) ==
  IF targetSize <= 100 * 1024 * numPages THEN PresetAggressive
  ELSE IF targetSize <= 300 * 1024 * numPages THEN PresetMedium
  ELSE PresetGenerous
\* sizePerPage = targetSize / numPages compared with 100 KiB and 300 KiB
\* (numPages > 0: the quotient is below the limit iff targetSize is below
\* limit * numPages)
Preset(targetSize, numPages) ==
  IF targetSize < 100 * 1024 * numPages THEN PresetAggressive
  ELSE IF targetSize < 300 * 1024 * numPages THEN PresetMedium
  ELSE PresetGenerous

LoopContinuesShort(i, numPages) == i < numPages
\* the loop test i <= pdfDocument.numPages
LoopContinues(i, numPages) == i <= numPages

\* await loadingTask.promise; PDFDocument.create(); the preset; let i = 1
PdfLoad(r) ==
  /\ UNCHANGED outside
  /\ serverUp
  /\ pc[r] = "pdfLoad"
  /\ \/ /\ PdfThrow(r, "load")
        /\ pdf' = pdf
     \/ \E n \in 1..MaxPages :
          LET pre == Preset(pdf[r].targetSize, n) IN
          /\ pdf' = [pdf EXCEPT ![r].numPages = n, ![r].i = 1,
                                ![r].scale = pre.scale,
                                ![r].quality = pre.quality,
                                ![r].resizeWidth = pre.resizeWidth]
          /\ Continue(r, IF LoopContinues(1, n) THEN "pdfGet" ELSE "pdfSave")
  /\ UNCHANGED <<clock, file, missing, compressed, timestamp, outputFilename,
                 compressionType, rung, measured, ran>>

\* const page = await pdfDocument.getPage(i)
PdfGetPage(r) ==
  /\ UNCHANGED outside
  /\ serverUp
  /\ pc[r] = "pdfGet"
  /\ \/ /\ PdfThrow(r, "page")
        /\ pdf' = pdf
     \/ /\ pdf' = [pdf EXCEPT ![r].held = @ \cup {pdf[r].i}]
        /\ Continue(r, "pdfPage")
  /\ UNCHANGED <<clock, file, missing, compressed, timestamp, outputFilename,
                 compressionType, rung, measured, ran>>

\* the page newPdfDoc.addPage / drawImage appends for source page i: rendered
\* at the viewport scale, re-encoded by sharp at resizeWidth / quality
Rasterized(p, i) ==
  [page |-> i, scale |-> p.scale, quality |-> p.quality,
   resizeWidth |-> p.resizeWidth]

CleanupSkipped(held, i) == held
\* page.cleanup(): page i's rendering resources are released
Cleanup(held, i) == held \ {i}

\* render, toBuffer, sharp, embedJpg, addPage, drawImage, page.cleanup(), i++
PdfPage(r) ==
  /\ UNCHANGED outside
  /\ serverUp
  /\ pc[r] = "pdfPage"
  /\ \/ /\ PdfThrow(r, "page")
        /\ pdf' = pdf
     \/ /\ pdf' = [pdf EXCEPT ![r].added = Append(@, Rasterized(pdf[r], pdf[r].i)),
                              ![r].held = Cleanup(@, pdf[r].i),
                              ![r].i = @ + 1]
        /\ Continue(r, IF LoopContinues(pdf[r].i + 1, pdf[r].numPages)
                         THEN "pdfGet" ELSE "pdfSave")
  /\ UNCHANGED <<clock, file, missing, compressed, timestamp, outputFilename,
                 compressionType, rung, measured, ran>>

\* compressPdf returns: to the handler, which sets compressionType and runs
\* the success tail in the same turn, or to the direct caller
PdfReturn(r, fsNow) ==
  IF pdf[r].direct
    THEN /\ pc' = [pc EXCEPT ![r] = "resolved"]
         /\ UNCHANGED <<compressionType, uploads, resp, nResp, errLog, escaped,
                        serverUp>>
    ELSE /\ compressionType' = [compressionType EXCEPT
                ![r] = LabelOf("pdf", file[r].mimetype)]
         /\ SuccessTail(r, fsNow, outputFilename[r], compressionType'[r])

\* await newPdfDoc.save(); fs.writeFileSync(outputPath, pdfBytes); return
PdfSave(r) ==
  /\ UNCHANGED outside
  /\ serverUp
  /\ pc[r] = "pdfSave"
  /\ UNCHANGED <<clock, file, missing, timestamp, outputFilename, rung, measured, pdf,
                 ran>>
  /\ \/ /\ PdfThrow(r, "save")
        /\ UNCHANGED <<compressed, compressionType>>
     \/ /\ \E partial \in BOOLEAN :
             compressed' =
               IF partial
                 THEN WriteFile(compressed, outputFilename[r],
                        FileContent(r, "pdf", NoRung, 0, FALSE, <<>>, <<>>))
                 ELSE compressed
        /\ PdfThrow(r, "write")
        /\ UNCHANGED compressionType
     \/ /\ \E s \in Sizes :
             compressed' = WriteFile(compressed, outputFilename[r],
                 FileContent(r, "pdf", NoRung, s, TRUE, pdf[r].added, <<>>))
        /\ PdfReturn(r, compressed')

\* ------------------------------------------------------------- generic strategy
\* destination 'finish': the whole source went through gzip into the output
GzipFinish(r) ==
  /\ UNCHANGED outside
  /\ serverUp
  /\ pc[r] = "gzip"
  /\ ExistsSync(uploads, r)
  /\ \E s \in Sizes :
       compressed' = WriteFile(compressed, outputFilename[r],
           FileContent(r, "gz", NoRung, s, TRUE, <<>>,
                       WrittenAtFinish(file[r].bytes)))
  /\ compressionType' = [compressionType EXCEPT
         ![r] = LabelOf("generic", file[r].mimetype)]
  /\ SuccessTail(r, compressed', outputFilename[r], compressionType'[r])
  /\ UNCHANGED <<clock, file, missing, timestamp, outputFilename, rung, measured, pdf,
                 ran>>

\* destination 'error': the promise rejects; the output may have been created.
\* (With a missing source the source's own 'error' is what happens, below.)
GzipDestError(r) ==
  /\ UNCHANGED outside
  /\ serverUp
  /\ pc[r] = "gzip"
  /\ ExistsSync(uploads, r)
  /\ \E partial \in BOOLEAN :
       compressed' =
         IF partial
           THEN WriteFile(compressed, outputFilename[r],
                  FileContent(r, "gz", NoRung, 0, FALSE, <<>>, <<>>))
           ELSE compressed
  /\ Catch(r, "write")
  /\ UNCHANGED <<clock, file, missing, timestamp, outputFilename, compressionType, rung,
                 measured, pdf, ran>>

\* 'error' on the source (or gzip) stream: neither has a listener, the
\* promise never settles; the output may have been created by then
GzipSourceError(r) ==
  /\ UNCHANGED outside
  /\ serverUp
  /\ pc[r] = "gzip"
  /\ \E created \in BOOLEAN :
       compressed' =
         IF created
           THEN WriteFile(compressed, outputFilename[r],
                  FileContent(r, "gz", NoRung, 0, FALSE, <<>>, <<>>))
           ELSE compressed
  /\ UncaughtException(r, "read")
  /\ UNCHANGED <<clock, file, missing, uploads, timestamp, outputFilename,
                 compressionType, rung, measured, pdf, errLog, ran>>

\* ------------------------------------------------------------- specification
Next ==
  \/ Tick
  \/ \E r \in Req :
       \/ Upload(r)
       \/ StartNoFile(r)
       \/ StartImage(r)
       \/ StartPdf(r)
       \/ StartGeneric(r)
       \/ EncodeDone(r)
       \/ RungCont(r)
       \/ PdfLoad(r)
       \/ PdfGetPage(r)
       \/ PdfPage(r)
       \/ PdfSave(r)
       \/ GzipFinish(r)
       \/ GzipDestError(r)
       \/ GzipSourceError(r)

Spec == Init /\ [][Next]_vars

\* ------------------------------------------------------------- one request, any inputs
\* Original file names with upper case, punctuation, several dots, a leading
\* dot, a trailing dot, or no extension.
SoloNames ==
  { <<"A", "-", "b", ".", "t">>,
    <<"a", "b">>,
    <<"a", ".", "b", ".", "t">>,
    <<".", "a", "b">>,
    <<"B", " ", "2", "_", ".", "A", "b">>,
    <<"a", ".">> }

\* A target size sent along with the request (0: none sent).
Overrides == {0, 5 * 1024 * 1024}

\* Contents of the uploaded file.
SoloBytes == { <<>>, <<1, 1, 2>>, <<2, 1, 1, 1>> }

\* request 1 has been received by upload.single('file')
InitSolo ==
  /\ NothingRun
  /\ OutsideIdle
  /\ pc = [r \in Req |-> IF r = 1 THEN "uploaded" ELSE "idle"]
  /\ \E f \in {NoFileRec} \cup
               [hasFile : {TRUE}, mimetype : MimeTypes, originalname : SoloNames,
                override : Overrides, bytes : SoloBytes],
        present \in BOOLEAN :
       /\ file = [r \in Req |-> IF r = 1 THEN f ELSE NoFileRec]
       /\ uploads = IF f.hasFile /\ present THEN {1} ELSE {}
       /\ missing = IF f.hasFile /\ ~present THEN {1} ELSE {}
  /\ outputFilename = [r \in Req |-> <<>>]
  /\ pdf = [r \in Req |-> NoPdf]

NextSolo ==
  \/ Tick
  \/ \E r \in {1} :
       \/ StartNoFile(r)
       \/ StartImage(r)
       \/ StartPdf(r)
       \/ StartGeneric(r)
       \/ EncodeDone(r)
       \/ RungCont(r)
       \/ PdfLoad(r)
       \/ PdfGetPage(r)
       \/ PdfPage(r)
       \/ PdfSave(r)
       \/ GzipFinish(r)
       \/ GzipDestError(r)
       \/ GzipSourceError(r)

SoloSpec == InitSolo /\ [][NextSolo]_vars

\* ------------------------------------------------------------- compressPdf called directly
\* Values of the targetSize argument: non-positive ones, and the ones around
\* 100 KiB and 300 KiB per page for one and two pages.
TargetSizes ==
  { -1, 0,
    100 * 1024 - 1, 100 * 1024, 200 * 1024 - 1, 200 * 1024,
    300 * 1024 - 1, 300 * 1024, 600 * 1024 - 1, 600 * 1024,
    TARGET_SIZE }

\* the two calls in progress
DirectCalls == {1, 2}

\* the outputPath argument of call r
DirectOutputPath(r) == <<"out", ToString(r), ".", "pdf">>

\* compressPdf(inputPath, outputPath, targetSize) has been called
InitPdf ==
  /\ NothingRun
  /\ OutsideIdle
  /\ pc = [r \in Req |-> IF r \in DirectCalls THEN "pdfCall" ELSE "idle"]
  /\ file = [r \in Req |-> NoFileRec]
  /\ uploads \in SUBSET DirectCalls
  /\ missing = DirectCalls \ uploads
  /\ outputFilename =
       [r \in Req |-> IF r \in DirectCalls THEN DirectOutputPath(r) ELSE <<>>]
  /\ \E t \in [DirectCalls -> TargetSizes] :
       pdf = [r \in Req |->
                IF r \in DirectCalls
                  THEN [NoPdf EXCEPT !.targetSize = t[r], !.direct = TRUE]
                  ELSE NoPdf]

\* the call's first statement
PdfRead(r) ==
  /\ UNCHANGED outside
  /\ serverUp
  /\ pc[r] = "pdfCall"
  /\ PdfReadInput(r)
  /\ UNCHANGED <<clock, file, missing, compressed, timestamp, outputFilename,
                 compressionType, rung, measured, pdf, ran>>

NextPdf ==
  \E r \in DirectCalls :
    \/ PdfRead(r)
    \/ PdfLoad(r)
    \/ PdfGetPage(r)
    \/ PdfPage(r)
    \/ PdfSave(r)

PdfSpec == InitPdf /\ [][NextPdf]_vars

\* ------------------------------------------------------------- formatBytes
\* A byte count is held as its base-1024 digits, most significant first
\* (<<>> is 0, <<1, 512>> is 1536, <<1, 0, 0>> is 1048576), so that counts of
\* 1024^5 and more can be written.  Only the first two digits are non-zero.
FmtTops == {1, 2, 512, 1023}

FmtSeconds == {0, 5, 10, 512, 1018, 1019, 1023}

FmtInputs ==
  {<<>>} \cup {<<t>> : t \in FmtTops} \cup
  { <<t, n>> \o [j \in 1..z |-> 0] :
      t \in FmtTops, n \in FmtSeconds, z \in 0..(MaxFmtDigits - 2) }

\* const sizes = ['Bytes', 'KB', 'MB', 'GB', 'TB']
SizeUnits == <<"Bytes", "KB", "MB", "GB", "TB">>

\* sizes[i]: a JavaScript array read, undefined past the end
ArrayAt(a, i) == IF i + 1 \in DOMAIN a THEN a[i + 1] ELSE "undefined"

\* Math.floor(Math.log(bytes) / Math.log(k)): the number of base-1024 digits
\* after the first
UnitIndex(bytes) == Len(bytes) - 1

\* (bytes / Math.pow(k, i)).toFixed(2), in hundredths: the quotient is
\* digit 1 plus the fraction the next two digits make, rounded half up
ToFixed2(bytes) ==
  LET n1 == IF Len(bytes) >= 2 THEN bytes[2] ELSE 0
      n2 == IF Len(bytes) >= 3 THEN bytes[3] ELSE 0
  IN  bytes[1] * 100 +
        (((n1 * 1024 + n2) * 200 + 1024 * 1024) \div (2 * 1024 * 1024))

\* parseFloat(<toFixed string>) + '': trailing zeros of the fraction dropped
NumberString(hundredths) ==
  LET whole == hundredths \div 100
      h == hundredths % 100
  IN  <<ToString(whole)>> \o
        (IF h = 0 THEN <<>>
         ELSE IF h % 10 = 0 THEN <<".", ToString(h \div 10)>>
         ELSE <<".", ToString(h \div 10), ToString(h % 10)>>)

\* formatBytes(bytes), decimals left at its default 2
FormatBytes(bytes) ==
  IF bytes = <<>> THEN <<"0", " ", "Bytes">>
  ELSE NumberString(ToFixed2(bytes)) \o
         <<" ", ArrayAt(SizeUnits, UnitIndex(bytes))>>

\* formatBytes is about to be called with some byte count
InitFmt ==
  /\ RouteIdle
  /\ AuthIdle
  /\ LadIdle
  /\ PickIdle
  /\ BoqIdle
  /\ fmt \in {[NoFmt EXCEPT !.bytes = b] : b \in FmtInputs}

\* the call returns
FormatBytesCall ==
  /\ ~fmt.called
  /\ fmt' = [fmt EXCEPT !.called = TRUE, !.returned = FormatBytes(fmt.bytes)]
  /\ UNCHANGED <<routeVars, authVars, ladVars, pickVars, boqVars>>

NextFmt == FormatBytesCall

FmtSpec == InitFmt /\ [][NextFmt]_vars

\* ------------------------------------------------------------- auth routes
\* Emails and phone numbers as the requests send them.
RawEmails == { <<"a">>, <<"A", " ">>, <<"b">> }

RawPhones == { <<"1">>, <<" ", "1">>, <<"2">> }

\* String.prototype.trim
RECURSIVE Trim(_)
Trim(s) ==
  IF s = <<>> THEN s
  ELSE IF Head(s) = " " THEN Trim(Tail(s))
  ELSE IF s[Len(s)] = " " THEN Trim(SubSeq(s, 1, Len(s) - 1))
  ELSE s

\* normalizeEmail: String(email).trim().toLowerCase()
NormalizeEmail(email) ==
  LET t == Trim(email) IN [i \in 1..Len(t) |-> ToLowerChar(t[i])]

\* normalizePhone: String(phoneNumber).trim()
NormalizePhone(phone) == Trim(phone)

\* the user_id values of the rows
UserIds == {u.user_id : u \in users}

\* gen_random_uuid(): an id no row has
FreshId == IF users = {} THEN 1 ELSE 1 + CHOOSE m \in UserIds : \A k \in UserIds : k <= m

\* email TEXT NOT NULL UNIQUE, phone_number TEXT NOT NULL UNIQUE: the row
\* would repeat the email or phone number of another row
UniqueViolation(row) ==
  \E u \in users :
    /\ u.user_id # row.user_id
    /\ u.email = row.email \/ u.phone_number = row.phone_number

\* the handler answers and returns
AuthRespond(r, status, error, thrown) ==
  auth' = [auth EXCEPT ![r] = [NoAuth EXCEPT !.op = auth[r].op, !.pc = "done",
                                 !.status = status, !.error = error,
                                 !.thrown = thrown]]

\* POST /signup up to the first query: the body is checked and normalized
SignupStart(r) ==
  /\ auth[r].op = "none"
  /\ Cardinality(users) +
       Cardinality({q \in Req : auth[q].op = "signup" /\ auth[q].pc # "done"})
         < MaxUsers
  /\ \E e \in RawEmails, p \in RawPhones,
        body \in {"ok", "missing", "nosecret", "badrole"} :
       auth' = [auth EXCEPT ![r] =
         CASE body = "missing" ->
                [NoAuth EXCEPT !.op = "signup", !.pc = "done", !.status = 400,
                   !.error = "username, email, phone_number, password, and role are required"]
           [] body = "nosecret" ->
                [NoAuth EXCEPT !.op = "signup", !.pc = "done", !.status = 500,
                   !.error = "JWT_SECRET is not configured"]
           [] body = "badrole" ->
                [NoAuth EXCEPT !.op = "signup", !.pc = "done", !.email = e,
                   !.phone = p, !.status = 400, !.error = "invalid role"]
           [] OTHER ->
                [NoAuth EXCEPT !.op = "signup", !.pc = "select", !.email = e,
                   !.phone = p]]
  /\ UNCHANGED <<routeVars, fmtVars, ladVars, pickVars, boqVars, users>>

\* SELECT ... WHERE email = $1 OR phone_number = $2, and the 409 answers
SignupSelect(r) ==
  /\ auth[r].op = "signup"
  /\ auth[r].pc = "select"
  /\ LET normalizedEmail == NormalizeEmail(auth[r].email)
         normalizedPhone == NormalizePhone(auth[r].phone)
         existing == {u \in users : u.email = normalizedEmail
                                      \/ u.phone_number = normalizedPhone}
     IN  \/ AuthRespond(r, 500, "failed to sign up", "query")
         \/ IF \E u \in existing : u.email = normalizedEmail
              THEN AuthRespond(r, 409, "email already exists", "none")
            ELSE IF \E u \in existing : u.phone_number = normalizedPhone
              THEN AuthRespond(r, 409, "phone number already exists", "none")
            ELSE auth' = [auth EXCEPT ![r].pc = "hash"]
  /\ UNCHANGED <<routeVars, fmtVars, ladVars, pickVars, boqVars, users>>

\* await bcrypt.hash(String(password), 12)
SignupHash(r) ==
  /\ auth[r].op = "signup"
  /\ auth[r].pc = "hash"
  /\ \/ AuthRespond(r, 500, "failed to sign up", "hash")
     \/ auth' = [auth EXCEPT ![r].pc = "insert"]
  /\ UNCHANGED <<routeVars, fmtVars, ladVars, pickVars, boqVars, users>>

\* INSERT INTO auth_users ... RETURNING, and the 201 answer
SignupInsert(r) ==
  /\ auth[r].op = "signup"
  /\ auth[r].pc = "insert"
  /\ LET row == [user_id |-> FreshId,
                 email |-> NormalizeEmail(auth[r].email),
                 phone_number |-> NormalizePhone(auth[r].phone),
                 password_hash |-> "signup"]
     IN  IF UniqueViolation(row)
           THEN /\ AuthRespond(r, 500, "failed to sign up", "unique")
                /\ users' = users
           ELSE \/ /\ AuthRespond(r, 500, "failed to sign up", "query")
                   /\ users' = users
                \/ /\ auth' = [auth EXCEPT ![r] =
                          [NoAuth EXCEPT !.op = "signup", !.pc = "done",
                                         !.status = 201, !.id = row.user_id]]
                   /\ users' = users \cup {row}
  /\ UNCHANGED <<routeVars, fmtVars, ladVars, pickVars, boqVars>>

\* the email PUT /users/:id stores: req.body.email as it came
UpdatedEmail(email) == email

\* PUT /users/:id: the body is checked, then one UPDATE ... WHERE user_id = $6
UpdateUser(r) ==
  /\ auth[r].op = "none"
  /\ \E id \in 1..MaxUsers, e \in RawEmails, p \in RawPhones,
        body \in {"ok", "missing"}, queryThrows \in BOOLEAN :
       LET req == [NoAuth EXCEPT !.op = "update", !.pc = "done"]
           old == {u \in users : u.user_id = id}
           new == {[u EXCEPT !.email = UpdatedEmail(e), !.phone_number = p] :
                     u \in old}
       IN  IF body = "missing"
             THEN /\ auth' = [auth EXCEPT ![r] = [req EXCEPT !.status = 400,
                        !.error = "username, email and role are required"]]
                  /\ users' = users
           ELSE IF queryThrows
             THEN /\ auth' = [auth EXCEPT ![r] = [req EXCEPT !.status = 500,
                        !.error = "failed to update user", !.thrown = "query"]]
                  /\ users' = users
           ELSE IF old = {}
             THEN /\ auth' = [auth EXCEPT ![r] = [req EXCEPT !.status = 404,
                        !.error = "user not found"]]
                  /\ users' = users
           ELSE IF \E row \in new : UniqueViolation(row)
             THEN /\ auth' = [auth EXCEPT ![r] = [req EXCEPT !.status = 500,
                        !.error = "failed to update user", !.thrown = "unique"]]
                  /\ users' = users
           ELSE /\ auth' = [auth EXCEPT ![r] = [req EXCEPT !.status = 200]]
                /\ users' = (users \ old) \cup new
  /\ UNCHANGED <<routeVars, fmtVars, ladVars, pickVars, boqVars>>

\* POST /forgot-password up to the first query
ForgotStart(r) ==
  /\ auth[r].op = "none"
  /\ \E e \in RawEmails, body \in {"ok", "missing", "mismatch"} :
       auth' = [auth EXCEPT ![r] =
         CASE body = "missing" ->
                [NoAuth EXCEPT !.op = "forgot", !.pc = "done", !.status = 400,
                   !.error = "email_id, password_change, and re_typepassword are required"]
           [] body = "mismatch" ->
                [NoAuth EXCEPT !.op = "forgot", !.pc = "done",
                   !.status = 400, !.error = "password does not match"]
           [] OTHER ->
                [NoAuth EXCEPT !.op = "forgot", !.pc = "select", !.email = e]]
  /\ UNCHANGED <<routeVars, fmtVars, ladVars, pickVars, boqVars, users>>

\* SELECT user_id FROM auth_users WHERE email = $1
ForgotSelect(r) ==
  /\ auth[r].op = "forgot"
  /\ auth[r].pc = "select"
  /\ \/ AuthRespond(r, 500, "failed to update password", "query")
     \/ IF \E u \in users : u.email = NormalizeEmail(auth[r].email)
          THEN auth' = [auth EXCEPT ![r].pc = "hash"]
          ELSE AuthRespond(r, 401, "email not found", "none")
  /\ UNCHANGED <<routeVars, fmtVars, ladVars, pickVars, boqVars, users>>

\* bcrypt.hash, then UPDATE auth_users SET password_hash = $1 WHERE email = $2
ForgotUpdate(r) ==
  /\ auth[r].op = "forgot"
  /\ auth[r].pc = "hash"
  /\ \/ /\ AuthRespond(r, 500, "failed to update password", "query")
        /\ users' = users
     \/ /\ AuthRespond(r, 200, "", "none")
        /\ users' = {IF u.email = NormalizeEmail(auth[r].email)
                       THEN [u EXCEPT !.password_hash = "changed"] ELSE u :
                     u \in users}
  /\ UNCHANGED <<routeVars, fmtVars, ladVars, pickVars, boqVars>>

\* POST /login: SELECT ... WHERE email = $1 with the normalized email, then
\* bcrypt.compare
Login(r) ==
  /\ auth[r].op = "none"
  /\ \E e \in RawEmails, outcome \in {"ok", "missing", "nosecret", "wrong", "throws"} :
       LET req == [NoAuth EXCEPT !.op = "login", !.pc = "done"]
           found == {u \in users : u.email = NormalizeEmail(e)}
       IN  auth' = [auth EXCEPT ![r] =
             CASE outcome = "missing" ->
                    [req EXCEPT !.status = 400,
                                !.error = "email and password are required"]
               [] outcome = "nosecret" ->
                    [req EXCEPT !.status = 500,
                                !.error = "JWT_SECRET is not configured"]
               [] outcome = "throws" ->
                    [req EXCEPT !.status = 500, !.error = "failed to log in",
                                !.thrown = "query"]
               [] OTHER ->
                    IF found = {}
                      THEN [req EXCEPT !.status = 401,
                                       !.error = "invalid credentials"]
                    ELSE IF outcome = "wrong"
                      THEN [req EXCEPT !.status = 401,
                                       !.error = "password does not match"]
                    ELSE [req EXCEPT !.status = 200]]
  /\ UNCHANGED <<routeVars, fmtVars, ladVars, pickVars, boqVars, users>>

\* the answered request is over; the next one can come
AuthDone(r) ==
  /\ auth[r].pc = "done"
  /\ auth' = [auth EXCEPT ![r] = NoAuth]
  /\ UNCHANGED <<routeVars, fmtVars, ladVars, pickVars, boqVars, users>>

\* the connections the auth routes are exercised on
AuthCalls == {1, 2}

NextAuth ==
  \E r \in AuthCalls :
    \/ SignupStart(r)
    \/ SignupSelect(r)
    \/ SignupHash(r)
    \/ SignupInsert(r)
    \/ UpdateUser(r)
    \/ ForgotStart(r)
    \/ ForgotSelect(r)
    \/ ForgotUpdate(r)
    \/ Login(r)
    \/ AuthDone(r)

AuthSpec == Init /\ [][NextAuth]_vars

\* ------------------------------------------------------------- ladder, rung by rung
\* widths of the source images
SrcWidths == {400, 800, 1000, 1280, 1600, 1920, 4000, 5840, 8000}

\* encoders whose output size does not decrease with the width or the quality
Encoders == {"area", "width", "quality", "steps", "flat"}

\* .resize({ width, fit: 'inside', withoutEnlargement: true }): the width of
\* the resized image
ResizedWidth(srcWidth, width) == IF srcWidth > width THEN width ELSE srcWidth

\* .jpeg({ quality }).toFile(outputPath): the size of the file written
EncodedSize(encoder, width, quality) ==
  CASE encoder = "area" -> width * quality
    [] encoder = "width" -> width
    [] encoder = "quality" -> quality
    [] encoder = "steps" -> (width \div 1000) + (quality \div 40)
    [] OTHER -> 1

RungSettingReversed(k) == Ladder[Len(Ladder) + 1 - k]
\* the resize / jpeg settings of the k-th block of the image branch
RungSetting(k) == Ladder[k]

InitLad ==
  /\ RouteIdle
  /\ FmtIdle
  /\ AuthIdle
  /\ PickIdle
  /\ BoqIdle
  /\ lad \in {[NoLad EXCEPT !.srcWidth = w, !.encoder = e] :
               w \in SrcWidths, e \in Encoders}

\* sharp(inputPath).resize(...).jpeg(...).toFile(outputPath) of the next rung
LadderRung ==
  /\ lad.encoder # "none"
  /\ lad.k < Len(Ladder)
  /\ LET setting == RungSetting(lad.k + 1)
     IN  lad' = [lad EXCEPT !.k = @ + 1,
                            !.sizes = Append(@,
                               EncodedSize(lad.encoder,
                                           ResizedWidth(lad.srcWidth, setting.width),
                                           setting.quality))]
  /\ UNCHANGED <<routeVars, fmtVars, authVars, pickVars, boqVars>>

NextLad == LadderRung

LadSpec == InitLad /\ [][NextLad]_vars

\* ------------------------------------------------------------- preset of the handler's PDFs
MaxPageCount == 120

PageCounts == 1..MaxPageCount

InitPick ==
  /\ RouteIdle
  /\ FmtIdle
  /\ AuthIdle
  /\ LadIdle
  /\ BoqIdle
  /\ pick \in {[NoPick EXCEPT !.numPages = n, !.override = o] :
                n \in PageCounts, o \in Overrides}

\* compressPdf(inputPath, outputPath) as the handler calls it, up to the
\* preset chosen for pdfDocument.numPages pages
PickPreset ==
  /\ pick.numPages > 0
  /\ ~pick.called
  /\ LET pre == Preset(CompressPdfTarget(pick.override), pick.numPages)
     IN  pick' = [pick EXCEPT !.called = TRUE, !.scale = pre.scale,
                              !.quality = pre.quality,
                              !.resizeWidth = pre.resizeWidth]
  /\ UNCHANGED <<routeVars, fmtVars, authVars, ladVars, boqVars>>

NextPick == PickPreset

PickSpec == InitPick /\ [][NextPick]_vars

\* ------------------------------------------------------------- BOQ routes
MaxBoqs == 2

\* the connections the BOQ routes are exercised on
BoqCalls == {1, 2}

\* the handler answers and returns
BoqRespond(r, status) ==
  boq' = [boq EXCEPT ![r].pc = "done", ![r].status = status]

\* POST /api/boq: multer stores the uploaded file under a fresh name, then
\* the row is inserted with boq_file = its URL (0: no file, NULL)
BoqCreate(r) ==
  /\ boq[r].op = "none"
  /\ boqSeq < MaxBoqs
  /\ boqSeq' = boqSeq + 1
  /\ \E withFile, queryThrows \in BOOLEAN :
       LET boq_file == IF withFile THEN boqSeq' ELSE 0
           req == [NoBoq EXCEPT !.op = "create", !.pc = "done"]
       IN  /\ boqFiles' = IF withFile THEN boqFiles \cup {boq_file} ELSE boqFiles
           /\ IF queryThrows
                THEN /\ boqs' = boqs
                     /\ boq' = [boq EXCEPT ![r] = [req EXCEPT !.status = 500]]
                ELSE /\ boqs' = boqs \cup {[boq_id |-> boqSeq', boq_file |-> boq_file]}
                     /\ boq' = [boq EXCEPT ![r] =
                                  [req EXCEPT !.status = 201, !.id = boqSeq',
                                              !.fileUrl = boq_file]]
  /\ UNCHANGED <<routeVars, fmtVars, authVars, ladVars, pickVars>>

\* DELETE /api/boq/:id up to the first query
BoqDeleteStart(r) ==
  /\ boq[r].op = "none"
  /\ \E id \in 1..MaxBoqs :
       boq' = [boq EXCEPT ![r] = [NoBoq EXCEPT !.op = "delete", !.pc = "select",
                                               !.id = id]]
  /\ UNCHANGED <<routeVars, fmtVars, authVars, ladVars, pickVars, boqs, boqFiles,
                 boqSeq>>

\* SELECT boq_file FROM boqs WHERE boq_id = $1 answers; the 404; the file of
\* the row is unlinked when it exists; the DELETE query is sent
BoqDeleteSelect(r) ==
  /\ boq[r].op = "delete"
  /\ boq[r].pc = "select"
  /\ LET rows == {b \in boqs : b.boq_id = boq[r].id}
     IN  \/ /\ BoqRespond(r, 500)
            /\ boqFiles' = boqFiles
         \/ /\ rows = {}
            /\ BoqRespond(r, 404)
            /\ boqFiles' = boqFiles
         \/ \E row \in rows :
              LET fileUrl == row.boq_file
              IN  IF fileUrl # 0 /\ fileUrl \in boqFiles
                    THEN \/ /\ boq' = [boq EXCEPT ![r].pc = "done",
                                                   ![r].status = 500,
                                                   ![r].fileUrl = fileUrl]
                            /\ boqFiles' = boqFiles
                         \/ /\ boq' = [boq EXCEPT ![r].pc = "delete",
                                                   ![r].fileUrl = fileUrl]
                            /\ boqFiles' = boqFiles \ {fileUrl}
                    ELSE /\ boq' = [boq EXCEPT ![r].pc = "delete",
                                               ![r].fileUrl = fileUrl]
                         /\ boqFiles' = boqFiles
  /\ UNCHANGED <<routeVars, fmtVars, authVars, ladVars, pickVars, boqs, boqSeq>>

\* DELETE FROM boqs WHERE boq_id = $1 answers, and the 200 answer
BoqDeleteQuery(r) ==
  /\ boq[r].op = "delete"
  /\ boq[r].pc = "delete"
  /\ \/ /\ BoqRespond(r, 500)
        /\ boqs' = boqs
     \/ /\ BoqRespond(r, 200)
        /\ boqs' = {b \in boqs : b.boq_id # boq[r].id}
  /\ UNCHANGED <<routeVars, fmtVars, authVars, ladVars, pickVars, boqFiles, boqSeq>>

\* the answered request is over; the next one can come
BoqDone(r) ==
  /\ boq[r].pc = "done"
  /\ boq' = [boq EXCEPT ![r] = NoBoq]
  /\ UNCHANGED <<routeVars, fmtVars, authVars, ladVars, pickVars, boqs, boqFiles,
                 boqSeq>>

NextBoq ==
  \E r \in BoqCalls :
    \/ BoqCreate(r)
    \/ BoqDeleteStart(r)
    \/ BoqDeleteSelect(r)
    \/ BoqDeleteQuery(r)
    \/ BoqDone(r)

BoqSpec == Init /\ [][NextBoq]_vars

\* ------------------------------------------------------------- properties
\* the handler of r will take no further step
Terminal(r) == pc[r] \in {"done", "unhandled"}

\* some step of r's strategy or of the handler's tail failed
StepFailed(r) == errLog[r] # "none" \/ escaped[r] # "none"

\* the files of uploads/compressed/ that r wrote last
WrittenBy(r) == {p \in DOMAIN compressed : compressed[p].writer = r}

\* C1: whenever a step fails, the handler deletes the temp input file and
\* answers 500 'Failed to compress file'; after that answer the temp input
\* file does not exist.
C1_FailureCleansAndAnswers ==
  \A r \in Req :
    (Terminal(r) /\ StepFailed(r)) =>
      (resp[r] = Failure500 /\ ~ExistsSync(uploads, r))

\* C2: after a request that ended in failure, the output directory holds no
\* file written by that request.
C2_NoOutputAfterFailure ==
  \A r \in Req : resp[r] = Failure500 => WrittenBy(r) = {}

\* C3: the image ladder runs its rungs in the fixed order, goes on to rung
\* k+1 exactly when the size read after rung k exceeds 10 MiB, and the
\* final output is the first rung read at or under the target, else rung 4.
C3_Settings ==
  << [width |-> 5840, quality |-> 90], [width |-> 1920, quality |-> 85],
     [width |-> 1280, quality |-> 70], [width |-> 800, quality |-> 50] >>

C3_LadderFirstFit ==
  \A r \in Req :
    ran[r] = {"image"} =>
      LET m == measured[r]
          k == rung[r]
      IN  /\ k \in 1..4
          /\ Len(m) \in {k - 1, k}
          /\ Len(m) <= 3
          /\ \A j \in 1..(k - 1) : j <= Len(m) /\ m[j] > TARGET_SIZE
          /\ Len(m) = k => (m[k] <= TARGET_SIZE /\ Terminal(r))
          /\ resp[r].status = 200 =>
               (k = 4 \/ (Len(m) = k /\ m[k] <= TARGET_SIZE))
          /\ \A p \in WrittenBy(r) :
               /\ p = outputFilename[r]
               /\ \E j \in 1..k : compressed[p].rung = C3_Settings[j]
               /\ resp[r].status = 200 => compressed[p].rung = C3_Settings[k]

C3_Witness ==
  \E r \in Req :
    /\ resp[r].status = 200
    /\ rung[r] = 3
    /\ Len(measured[r]) = 3
    /\ outputFilename[r] \in WrittenBy(r)

\* C4: every image upload answered with success has an output file of at
\* most 10 MiB.
C4_ImageOutputUnderTarget ==
  \A r \in Req :
    (resp[r].status = 200 /\ ran[r] = {"image"}) => resp[r].size <= TARGET_SIZE

\* C5: every request that carries a file is answered exactly once, whatever
\* fails: a handler that is finished has sent one response.
C5_EveryRequestAnswered ==
  \A r \in Req :
    /\ nResp[r] <= 1
    /\ (Terminal(r) /\ file[r].hasFile) => nResp[r] = 1

\* C6: two requests in flight at the same time write to distinct output
\* paths, and the file a success response names holds that request's output.
InFlight(r) == outputFilename[r] # <<>> /\ ~Terminal(r)

C6_DistinctOutputPaths ==
  /\ \A r1, r2 \in Req :
       (r1 # r2 /\ InFlight(r1) /\ InFlight(r2)) =>
         outputFilename[r1] # outputFilename[r2]
  /\ \A r \in Req :
       resp[r].status = 200 => compressed[resp[r].url].writer = r

\* C7: a request whose source file is missing ends with the failure
\* response and leaves no new file in the output directory.
C7_MissingSourceReported ==
  \A r \in missing :
    Terminal(r) => (resp[r] = Failure500 /\ WrittenBy(r) = {})

\* C8: when the delete in the catch block itself fails, the caller still
\* receives the compression-failure response.
C8_CleanupFailureNotMasked ==
  \A r \in Req :
    (escaped[r] = "unlink" /\ Terminal(r)) => resp[r] = Failure500

\* C9: when the success response has been sent, the temp input file is
\* deleted and the output file named in the response exists.
C9_SuccessAfterCleanup ==
  \A r \in Req :
    resp[r].status = 200 =>
      (~ExistsSync(uploads, r) /\ resp[r].url \in DOMAIN compressed)

C9_Witness ==
  \E r \in Req :
    /\ resp[r].status = 200
    /\ r \notin missing
    /\ resp[r].url = outputFilename[r]

\* C10: the strategy is chosen from the declared media type alone: image/*
\* runs the image strategy, application/pdf the PDF strategy, anything else
\* gzip; one strategy runs per request and the response names it.
C10_Expected(m) ==
  IF Len(m) >= 2 /\ m[1] = "image" /\ m[2] = "/" THEN "image"
  ELSE IF m = <<"application", "/", "pdf">> THEN "pdf"
  ELSE "generic"

C10_Label(strategy) ==
  CASE strategy = "image" -> "image-optimization"
    [] strategy = "pdf" -> "pdf-rasterization"
    [] strategy = "generic" -> "gzip"

C11_Remaining(r) ==
  2 * (4 - rung[r]) +
    (CASE pc[r] = "encode" -> 2 [] pc[r] = "stat" -> 1 [] OTHER -> 0)

C11_InLadder(r) == ran[r] = {"image"} /\ ~Terminal(r)

C11_ImageTerminates ==
  /\ [](\A r \in Req :
          ran[r] = {"image"} =>
            /\ rung[r] \in 1..4
            /\ C11_Remaining(r) >= 0
            /\ C11_InLadder(r) =>
                 /\ pc[r] \in {"encode", "stat"}
                 /\ serverUp => ENABLED (EncodeDone(r) \/ RungCont(r)))
  /\ [][\A r \in Req :
          (C11_InLadder(r) /\ <<pc[r], rung[r]>>' # <<pc[r], rung[r]>>) =>
            C11_Remaining(r)' < C11_Remaining(r)]_vars

C11_Witness ==
  \E r \in Req :
    /\ ran[r] = {"image"}
    /\ rung[r] = 4
    /\ Len(measured[r]) = 3
    /\ resp[r].status = 200
    /\ resp[r].size > TARGET_SIZE

\* C12: missing the target is not an error: a request none of whose steps
\* failed is answered 200 with the size its output reached, also when the
\* image ladder ended above 10 MiB after rung 4 or the PDF pass came out
\* above 10 MiB, and the output file stays in the output directory.
C12_MissedTarget(r) ==
  \/ ran[r] = {"image"} /\ rung[r] = 4 /\ Len(measured[r]) = 3
  \/ ran[r] = {"pdf"} /\ pc[r] = "done"

C12_TargetMissIsSuccess ==
  \A r \in Req :
    /\ (file[r].hasFile /\ Terminal(r) /\ ~StepFailed(r)) =>
         /\ resp[r].status = 200
         /\ resp[r].url = outputFilename[r]
         /\ resp[r].url \in DOMAIN compressed
         /\ compressed[resp[r].url].writer = r =>
              resp[r].size = compressed[resp[r].url].size
    /\ (C12_MissedTarget(r) /\ resp[r].status # 0) =>
         (resp[r].status = 200 <=> ~StepFailed(r))

C12_Witness ==
  \E r1, r2 \in Req :
    /\ ran[r1] = {"image"} /\ rung[r1] = 4
    /\ resp[r1].status = 200 /\ resp[r1].size > TARGET_SIZE
    /\ ran[r2] = {"pdf"}
    /\ resp[r2].status = 200 /\ resp[r2].size > TARGET_SIZE
    /\ {resp[r1].url, resp[r2].url} \subseteq DOMAIN compressed

\* C13: when no page fails, compressPdf adds exactly one output page per
\* source page, in increasing page order 1..N: the file it writes has N
\* pages and its page i is the rasterization of source page i.
C13_PagesInOrder ==
  \A r \in Req :
    LET a == pdf[r].added
        n == pdf[r].numPages
    IN  /\ \A j \in 1..Len(a) : a[j].page = j
        /\ Len(a) <= n
        /\ pc[r] \in {"pdfGet", "pdfPage"} =>
             (Len(a) = pdf[r].i - 1 /\ pdf[r].i <= n)
        /\ pc[r] \in {"pdfSave", "resolved"} => (n >= 1 /\ Len(a) = n)
        /\ \A p \in WrittenBy(r) :
             (compressed[p].kind = "pdf" /\ compressed[p].complete) =>
               /\ Len(compressed[p].pages) = n
               /\ \A j \in 1..n : compressed[p].pages[j].page = j

C13_Witness ==
  \E r \in Req :
    /\ pc[r] = "resolved"
    /\ pdf[r].numPages = 2
    /\ DirectOutputPath(r) \in WrittenBy(r)
    /\ compressed[DirectOutputPath(r)].complete
    /\ Len(compressed[DirectOutputPath(r)].pages) = 2

\* C14: compressPdf selects the preset once, before any page, from the
\* per-page budget targetSize / pageCount: below 100 KiB (1.0, 40, 800), from
\* 100 KiB up to but excluding 300 KiB (1.2, 60, 1000), from 300 KiB on
\* (1.5, 70, 1200); a smaller budget never selects a larger scale, quality
\* or width; every page of the document is made with that same preset.
C14_Expected(t, n) ==
  IF t < 102400 * n THEN <<10, 40, 800>>
  ELSE IF t < 307200 * n THEN <<12, 60, 1000>>
  ELSE <<15, 70, 1200>>

C14_Chosen(r) == <<pdf[r].scale, pdf[r].quality, pdf[r].resizeWidth>>

C14_Loaded(r) == pdf[r].numPages > 0

C14_PresetByBudget ==
  /\ \A r \in Req :
       /\ ~C14_Loaded(r) =>
            (pdf[r].added = <<>> /\ pdf[r].held = {} /\ C14_Chosen(r) = <<0, 0, 0>>)
       /\ C14_Loaded(r) =>
            /\ C14_Chosen(r) = C14_Expected(pdf[r].targetSize, pdf[r].numPages)
            /\ \A j \in 1..Len(pdf[r].added) :
                 <<pdf[r].added[j].scale, pdf[r].added[j].quality,
                   pdf[r].added[j].resizeWidth>> = C14_Chosen(r)
            /\ \A p \in WrittenBy(r) : \A j \in 1..Len(compressed[p].pages) :
                 <<compressed[p].pages[j].scale, compressed[p].pages[j].quality,
                   compressed[p].pages[j].resizeWidth>> = C14_Chosen(r)
  /\ \A r1, r2 \in Req :
       (C14_Loaded(r1) /\ C14_Loaded(r2) /\
        pdf[r1].targetSize * pdf[r2].numPages <= pdf[r2].targetSize * pdf[r1].numPages) =>
         \A k \in 1..3 : C14_Chosen(r1)[k] <= C14_Chosen(r2)[k]

C14_Witness ==
  \E r1, r2 \in Req :
    /\ pc[r1] = "resolved" /\ pc[r2] = "resolved"
    /\ pdf[r1].targetSize = 200 * 1024 /\ pdf[r1].numPages = 2
    /\ C14_Chosen(r1) = <<12, 60, 1000>>
    /\ Len(compressed[DirectOutputPath(r1)].pages) = 2
    /\ pdf[r2].targetSize = 100 * 1024 - 1 /\ pdf[r2].numPages = 1
    /\ C14_Chosen(r2) = <<10, 40, 800>>

C16_Governs(r, want) ==
  /\ (ran[r] = {"pdf"} /\ pc[r] # "uploaded") => pdf[r].targetSize = want
  /\ ran[r] = {"image"} =>
       \A j \in 1..Len(measured[r]) : (j < rung[r]) <=> (measured[r][j] > want)

C17_EndsWithGz(name) ==
  Len(name) >= 2 /\ SubSeq(name, Len(name) - 1, Len(name)) = <<".", "gz">>

C18_InternalErrors ==
  {"encode", "stat", "read", "load", "page", "save", "write", "unlink"}

C19_Started == {q \in Req : outputFilename[q] # <<>>}

C19_OneOutputFile ==
  /\ DOMAIN compressed \subseteq {outputFilename[q] : q \in C19_Started}
  /\ Cardinality(DOMAIN compressed) <= Cardinality(C19_Started)
  /\ \A r \in Req :
       /\ WrittenBy(r) \subseteq {outputFilename[r]}
       /\ resp[r].status = 200 =>
            /\ resp[r].url = outputFilename[r]
            /\ outputFilename[r] \in DOMAIN compressed
            /\ C19_Started = {r} => DOMAIN compressed = {outputFilename[r]}

C19_Witness ==
  \E r \in Req :
    /\ resp[r].status = 200
    /\ rung[r] = 4
    /\ C19_Started = {r}
    /\ Cardinality(DOMAIN compressed) = 1

\* C20: the output file name is <sanitized>-<timestamp>.<ext>: <sanitized>
\* is the original name without its extension, each character outside
\* [A-Za-z0-9] replaced by '_', lower-cased; <ext> is jpg for an image, pdf
\* for a PDF, and the original extension followed by .gz otherwise.
C20_LowerAndDigits == {"a", "b", "t", "0", "1", "2"}

C20_SanitizedChar(c) ==
  CASE c \in C20_LowerAndDigits -> c
    [] c = "A" -> "a"
    [] c = "B" -> "b"
    [] OTHER -> "_"

\* where the extension begins: the last dot, unless it leads the name
C20_ExtAt(name) ==
  IF \E i \in 2..Len(name) : name[i] = "."
    THEN CHOOSE i \in 2..Len(name) :
           name[i] = "." /\ \A j \in (i + 1)..Len(name) : name[j] # "."
    ELSE Len(name) + 1

C20_Sanitized(name) ==
  [i \in 1..(C20_ExtAt(name) - 1) |-> C20_SanitizedChar(name[i])]

C20_Extension(name) == SubSeq(name, C20_ExtAt(name), Len(name))

C20_Suffix(r) ==
  CASE ran[r] = {"image"} -> <<".", "jpg">>
    [] ran[r] = {"pdf"} -> <<".", "pdf">>
    [] ran[r] = {"generic"} -> C20_Extension(file[r].originalname) \o <<".", "gz">>

C20_OutputName ==
  \A r \in Req :
    outputFilename[r] # <<>> =>
      LET san == C20_Sanitized(file[r].originalname) IN
      /\ \A i \in 1..Len(san) : san[i] \in C20_LowerAndDigits \cup {"_"}
      /\ timestamp[r] <= clock
      /\ outputFilename[r] =
           san \o <<"-", ToString(timestamp[r])>> \o C20_Suffix(r)
      /\ resp[r].status = 200 => resp[r].url = outputFilename[r]

C20_Witness ==
  \E r \in Req :
    /\ resp[r].status = 200
    /\ file[r].originalname = <<"B", " ", "2", "_", ".", "A", "b">>
    /\ resp[r].url = <<"b", "_", "2", "_", "-", "1", ".", "A", "b", ".", "gz">>

\* C21: formatBytes(0) is '0 Bytes'; for a positive count b it returns
\* b / 1024^i rounded to at most 2 decimals and the i-th of Bytes, KB, MB, GB,
\* TB, i the largest integer with 1024^i <= b; the unit is always one of the
\* five; formatBytes(1536) = '1.5 KB' and formatBytes(1048576) = '1 MB'.
C21_Units == {"Bytes", "KB", "MB", "GB", "TB"}

C22_SignupUnique ==
  /\ \A u1, u2 \in users :
       u1 # u2 =>
         /\ NormalizeEmail(u1.email) # NormalizeEmail(u2.email)
         /\ u1.phone_number # u2.phone_number
  /\ \A r \in Req :
       (auth[r].op = "signup" /\ auth[r].thrown = "unique") => auth[r].status = 409

\* C29: after any sequence of signup, PUT /users/:id and forgot-password, every
\* stored email is in normalized form (trimmed, lower-case), so every user can
\* be found by the normalized lookup of login and forgot-password.
C29_StoredEmailsNormalized ==
  \A u \in users :
    /\ u.email = NormalizeEmail(u.email)
    /\ \E e \in RawEmails : NormalizeEmail(e) = u.email

\* C27: every image rung takes the uploaded source file as its input, never
\* the output of the rung before; the rungs leave the source as it is and
\* write the output path only; the source goes away only in the step in which
\* the handler ends (its final delete).
C27_InLadder(r) == ran[r] = {"image"} /\ ~Terminal(r)

C27_RungsReadSource ==
  /\ [](\A n \in DOMAIN compressed :
          compressed[n].kind = "jpg" =>
            compressed[n].payload = <<"uploads", compressed[n].writer>>)
  /\ [][\A r \in Req :
          C27_InLadder(r) =>
            /\ file'[r] = file[r]
            /\ (ExistsSync(uploads, r) /\ ~ExistsSync(uploads', r)) => Terminal(r)'
            /\ ~Terminal(r)' =>
                  /\ ExistsSync(uploads', r) = ExistsSync(uploads, r)
                  /\ \A n \in DOMAIN compressed' :
                       (n \notin DOMAIN compressed \/ compressed'[n] # compressed[n])
                         => n = RungOutputPath(outputFilename'[r], rung'[r])
                            \/ compressed'[n].writer # r]_vars

C27_Witness ==
  \E r \in Req :
    /\ C27_InLadder(r)
    /\ pc[r] = "stat"
    /\ rung[r] = Len(Ladder)
    /\ ExistsSync(uploads, r)
    /\ outputFilename[r] \in DOMAIN compressed
    /\ compressed[outputFilename[r]].rung = Ladder[Len(Ladder)]
    /\ compressed[outputFilename[r]].payload = <<"uploads", r>>

\* C23: the ladder is 5840/90, 1920/85, 1280/70, 800/50: each rung has a
\* strictly smaller width and a strictly smaller quality than the rung before,
\* so with an encoder whose output size does not decrease with the width or
\* with the quality, rung k+1 never writes a larger file than rung k did for
\* the same source.
C23_MonotoneLadder ==
  /\ [k \in 1..Len(Ladder) |-> <<RungSetting(k).width, RungSetting(k).quality>>]
       = << <<5840, 90>>, <<1920, 85>>, <<1280, 70>>, <<800, 50>> >>
  /\ \A k \in 1..(Len(Ladder) - 1) :
       /\ RungSetting(k + 1).width < RungSetting(k).width
       /\ RungSetting(k + 1).quality < RungSetting(k).quality
  /\ Len(lad.sizes) = lad.k
  /\ \A k \in 1..(Len(lad.sizes) - 1) : lad.sizes[k + 1] <= lad.sizes[k]

C23_Witness ==
  /\ lad.k = Len(Ladder)
  /\ lad.encoder = "area"
  /\ lad.srcWidth = 4000
  /\ lad.sizes = <<4000 * 90, 1920 * 85, 1280 * 70, 800 * 50>>

\* C24: when rendering, re-encoding or embedding page i throws inside
\* compressPdf, page i is released before the error reaches the caller: a
\* call that ended in an error holds no un-released page.
C24_Failed(r) ==
  \/ pc[r] = "rejected"
  \/ ran[r] = {"pdf"} /\ Terminal(r) /\ StepFailed(r)

C24_ReleasedOnFailure ==
  \A r \in Req : C24_Failed(r) => pdf[r].held = {}

\* C25: during compressPdf at most one page is held un-released; page i is
\* released after it was embedded and before page i+1 is fetched; no page is
\* held when the function returns normally.
C25_AtMostOneHeld ==
  \A r \in Req :
    /\ Cardinality(pdf[r].held) <= 1
    /\ pc[r] = "pdfGet" => pdf[r].held = {}
    /\ pc[r] = "pdfPage" =>
         (pdf[r].held = {pdf[r].i} /\ Len(pdf[r].added) = pdf[r].i - 1)
    /\ pc[r] \in {"pdfSave", "resolved"} => pdf[r].held = {}

C25_Witness ==
  \E r \in Req :
    /\ pc[r] = "resolved"
    /\ pdf[r].numPages = MaxPages
    /\ Len(pdf[r].added) = MaxPages
    /\ pdf[r].held = {}

\* C26: compressPdf writes the output file only after every page was
\* processed, in its single final write: while pages are in work and after a
\* failure of the load or of a page, the output path holds nothing written by
\* the call, partial or complete.
C26_WriteAfterAllPages ==
  \A r \in DirectCalls :
    /\ WrittenBy(r) \subseteq {DirectOutputPath(r)}
    /\ WrittenBy(r) # {} =>
         /\ pc[r] \in {"resolved", "rejected"}
         /\ pc[r] = "rejected" => escaped[r] = "write"
         /\ pdf[r].numPages >= 1
         /\ Len(pdf[r].added) = pdf[r].numPages
         /\ pdf[r].i = pdf[r].numPages + 1
    /\ (pc[r] = "rejected" /\ escaped[r] \in {"read", "load", "page", "save"}) =>
         DirectOutputPath(r) \notin DOMAIN compressed
    /\ pc[r] = "resolved" =>
         /\ DirectOutputPath(r) \in WrittenBy(r)
         /\ compressed[DirectOutputPath(r)].complete

C26_Witness ==
  \E r1, r2 \in DirectCalls :
    /\ pc[r1] = "rejected"
    /\ escaped[r1] = "page"
    /\ Len(pdf[r1].added) = 1
    /\ pdf[r1].numPages = 2
    /\ DirectOutputPath(r1) \notin DOMAIN compressed
    /\ pc[r2] = "resolved"
    /\ DirectOutputPath(r2) \in WrittenBy(r2)

\* C28: with the 10 MiB target the handler always passes, compressPdf uses
\* the generous preset (1.5, 70, 1200) for 1 to 34 pages, the medium preset
\* (1.2, 60, 1000) for 35 to 102 pages and the aggressive preset (1.0, 40, 800)
\* for 103 pages or more.
C28_Chosen == <<pick.scale, pick.quality, pick.resizeWidth>>

C28_PresetByPageCount ==
  pick.called =>
    /\ (1 <= pick.numPages /\ pick.numPages <= 34) => C28_Chosen = <<15, 70, 1200>>
    /\ (35 <= pick.numPages /\ pick.numPages <= 102) => C28_Chosen = <<12, 60, 1000>>
    /\ 103 <= pick.numPages => C28_Chosen = <<10, 40, 800>>

C28_Witness ==
  /\ pick.called
  /\ pick.numPages = 103
  /\ pick.override = 5 * 1024 * 1024
  /\ C28_Chosen = <<10, 40, 800>>

\* C30: DELETE /api/boq/:id is all-or-nothing for the row and its file: once
\* it has answered, both are gone (success) or both are still there (error),
\* and no row is left whose file was deleted (a row is without its file only
\* while the delete that took the file is still to answer).
C30_Deleting(id) ==
  \E r \in Req : boq[r].op = "delete" /\ boq[r].pc = "delete" /\ boq[r].id = id

C30_RowAndFileTogether ==
  /\ \A b \in boqs :
       (b.boq_file # 0 /\ ~C30_Deleting(b.boq_id)) => b.boq_file \in boqFiles
  /\ \A r \in Req :
       (boq[r].op = "delete" /\ boq[r].pc = "done" /\ boq[r].fileUrl # 0) =>
         LET rowThere == \E b \in boqs : b.boq_id = boq[r].id
             fileThere == boq[r].fileUrl \in boqFiles
         IN  IF boq[r].status = 200
               THEN ~rowThere /\ ~fileThere
               ELSE rowThere = fileThere

====
